---------------------------- MODULE Spec2Model ----------------------------
(***************************************************************************)
(* Model of the Resume Analyzer page component (Index) and of its report   *)
(* exporter exportToPDF.                                                   *)
(*                                                                         *)
(* Lengths are in tenths of a millimetre, so that every cursor advance of  *)
(* the source (15, 10, 8, 2, 3 mm and fontSize * 0.4 mm per wrapped line)  *)
(* is an integer: 11 * 0.4 mm = 44, 12 * 0.4 mm = 48.                      *)
(*                                                                         *)
(* A free text is represented by the number of lines doc.splitTextToSize   *)
(* wraps it to at its call site (glyph measurement belongs to the PDF      *)
(* library); an answer string is a sequence of characters.  A nullable     *)
(* value is the empty sequence (null) or a one-element sequence.           *)
(***************************************************************************)
EXTENDS Integers, Sequences, FiniteSets, TLC

VARIABLES file, isAnalyzing, analysis, isDragOver, error, calls, saves, nExport,
          nClick

vars == <<file, isAnalyzing, analysis, isDragOver, error, calls, saves, nExport,
          nClick>>

Null == <<>>

Some(x) == <<x>>

Last(s) == s[Len(s)]

-----------------------------------------------------------------------------
(* Bounds of the model *)

\* most list items and question/answer entries, in all, in a report that
\* varies the layout
MaxItems == 2

\* most question/answer entries in a report that varies the answers
MaxQA == 2

\* most exportToPDF invocations in one behaviour
MaxExports == 3

\* most analyzeResume calls in flight at once
MaxCalls == 2

\* most clicks on the Export control in one behaviour
MaxClicks == 1

-----------------------------------------------------------------------------
(* Page geometry of a default jsPDF document (A4, millimetres), in tenths *)

PageWidth == 2100

PageHeight == 2970

-----------------------------------------------------------------------------
(* String.prototype.toLowerCase / toUpperCase on sequences of characters *)

Upper == <<"Y", "E", "S", "N", "O", "M", "A", "B">>

Lower == <<"y", "e", "s", "n", "o", "m", "a", "b">>

LowerChar(c) ==
  IF \E i \in 1..Len(Upper) : Upper[i] = c
  THEN Lower[CHOOSE i \in 1..Len(Upper) : Upper[i] = c]
  ELSE c

UpperChar(c) ==
  IF \E i \in 1..Len(Lower) : Lower[i] = c
  THEN Upper[CHOOSE i \in 1..Len(Lower) : Lower[i] = c]
  ELSE c

toLowerCase(s) == [i \in 1..Len(s) |-> LowerChar(s[i])]

toUpperCase(s) == [i \in 1..Len(s) |-> UpperChar(s[i])]

YES == <<"y", "e", "s">>

-----------------------------------------------------------------------------
(* The jsPDF document object, together with the local yPosition of         *)
(* exportToPDF.  blocks is the sequence of doc.text calls, each with the   *)
(* page it lands on and the font size, style and colour in force; checks   *)
(* is the sequence of checkNewPage calls, each with the number of blocks   *)
(* emitted before it, its argument, and the cursor, page count and current *)
(* page before and after it.                                               *)

NewDoc ==
  [pages |-> 1, cur |-> 1, size |-> 16, style |-> "normal", color |-> "black",
   blocks |-> <<>>, saved |-> <<>>, y |-> 0, checks |-> <<>>]

setFontSize(d, s) == [d EXCEPT !.size = s]

setFont(d, w) == [d EXCEPT !.style = w]

setTextColor(d, c) == [d EXCEPT !.color = c]

text(d, sec, kind, val, lines, x, y) ==
  [d EXCEPT !.blocks = Append(@,
     [page |-> d.cur, x |-> x, y |-> y, size |-> d.size, style |-> d.style,
      color |-> d.color, sec |-> sec, kind |-> kind, val |-> val,
      lines |-> lines])]

\* addPage that appends the page and leaves the current page selected
addPageNotSelected(d) == [d EXCEPT !.pages = @ + 1]

addPage(d) == [d EXCEPT !.pages = @ + 1, !.cur = d.pages + 1]

setPage(d, i) == [d EXCEPT !.cur = i]

getNumberOfPages(d) == d.pages

save(d, name) ==
  [d EXCEPT !.saved = Append(@,
     [name |-> name, pages |-> d.pages, nblocks |-> Len(d.blocks)])]

-----------------------------------------------------------------------------
(* exportToPDF: helpers *)

\* what doc.splitTextToSize(text, maxWidth) returns, by its length
splitTextToSize(lines) == lines

\* addWrappedTextRet advancing by one line whatever the text wraps to
addWrappedTextRetOneLine(y, lines, fontSize) == y + fontSize * 4

\* the value addWrappedText returns: y + splitText.length * fontSize * 0.4
addWrappedTextRet(y, lines, fontSize) == y + splitTextToSize(lines) * fontSize * 4

\* addWrappedText(text, x, y, maxWidth, fontSize) called as
\* yPosition = addWrappedText(..., yPosition, ...)
addWrappedText(d, sec, kind, val, lines, x, fontSize) ==
  LET d1 == setFontSize(d, fontSize)
      d2 == text(d1, sec, kind, val, splitTextToSize(lines), x, d.y)
  IN  [d2 EXCEPT !.y = addWrappedTextRet(d.y, lines, fontSize)]

\* the record of one checkNewPage call that took the document from d to e
Logged(d, requiredSpace, e) ==
  [e EXCEPT !.checks = Append(@,
     [at |-> Len(d.blocks), r |-> requiredSpace,
      y |-> d.y, pages |-> d.pages, cur |-> d.cur,
      y2 |-> e.y, pages2 |-> e.pages, cur2 |-> e.cur])]

\* checkNewPage that adds two pages at a break
checkNewPageTwoPages(d, requiredSpace) ==
  Logged(d, requiredSpace,
         IF d.y + requiredSpace > PageHeight - 200
         THEN [addPage(addPage(d)) EXCEPT !.y = 200]
         ELSE d)

\* checkNewPage that adds the page and leaves yPosition where it is
checkNewPageNoReset(d, requiredSpace) ==
  Logged(d, requiredSpace,
         IF d.y + requiredSpace > PageHeight - 200 THEN addPage(d) ELSE d)

checkNewPage(d, requiredSpace) ==
  Logged(d, requiredSpace,
         IF d.y + requiredSpace > PageHeight - 200
         THEN [addPage(d) EXCEPT !.y = 200]
         ELSE d)

advance(d, dy) == [d EXCEPT !.y = @ + dy]

\* a || 0 on a nullable number
OrZero(n) == IF n = Null \/ n[1] = 0 THEN 0 ELSE n[1]

-----------------------------------------------------------------------------
(* exportToPDF: the content pass, section by section *)

Title(d) ==
  LET d1 == setFont(setFontSize(d, 20), "bold")
      d2 == text(d1, "title", "title", 0, 1, 200, d1.y)
  IN  advance(d2, 150)

MatchedColor(a) == IF a.matched THEN "green" ELSE "red"

MatchedText(a) == IF a.matched THEN "MATCHED" ELSE "NOT MATCHED"

MatchedBadge(d, a) ==
  LET d1 == setFont(setFontSize(d, 12), "normal")
      d2 == setTextColor(d1, MatchedColor(a))
      d3 == text(d2, "status", "status", MatchedText(a), 1, 200, d2.y)
      d4 == setTextColor(d3, "black")
  IN  advance(d4, 150)

\* ExportOverallScore with 100 in place of 0 as the substitute
ExportOverallScoreDefault100(a) ==
  IF a.overall_score = Null \/ a.overall_score[1] = 0 THEN 100 ELSE a.overall_score[1]

ExportOverallScore(a) == OrZero(a.overall_score)

ScoreBreakdown(d, a) ==
  LET d1 == checkNewPage(d, 600)
      d2 == setFont(setFontSize(d1, 16), "bold")
      d3 == advance(text(d2, "score", "header", 0, 1, 200, d2.y), 100)
      d4 == setFont(setFontSize(d3, 12), "normal")
      d5 == advance(text(d4, "score", "overall", ExportOverallScore(a), 1, 200, d4.y), 80)
      d6 == advance(text(d5, "score", "years", a.totalExperienceInYears, 1, 200, d5.y), 80)
      d7 == advance(text(d6, "score", "impact", a.impact, 1, 200, d6.y), 80)
      d8 == advance(text(d7, "score", "skills", a.skills_score, 1, 200, d7.y), 150)
  IN  d8

Summary(d, a) ==
  LET d1 == checkNewPage(d, 400)
      d2 == setFont(setFontSize(d1, 16), "bold")
      d3 == advance(text(d2, "summary", "header", 0, 1, 200, d2.y), 100)
      d4 == setFont(d3, "normal")
      d5 == addWrappedText(d4, "summary", "body", a.summary, a.summary, 200, 11)
  IN  advance(d5, 100)

\* Bullet with the check mark of the status lines in place of the bullet
BulletCheck(item) == [glyph |-> "check", text |-> item]

\* the template string of a list item, a bullet and the item's text
Bullet(item) == [glyph |-> "bullet", text |-> item]

\* ListItem that starts the new page in place of the item that needs it
ListItemDropOnBreak(d, sec, item) ==
  IF d.y + 100 > PageHeight - 200
  THEN checkNewPage(d, 100)
  ELSE advance(addWrappedText(d, sec, "item", Bullet(item), item, 250, 11), 20)

\* the body of the forEach of a list section
ListItem(d, sec, item) ==
  LET d1 == checkNewPage(d, 100)
      d2 == addWrappedText(d1, sec, "item", Bullet(item), item, 250, 11)
  IN  advance(d2, 20)

RECURSIVE ItemStates(_, _, _, _)
\* the document before items.forEach(...) and after each of its first n rounds
ItemStates(d, sec, items, n) ==
  IF n = 0 THEN <<d>>
  ELSE LET prev == ItemStates(d, sec, items, n - 1)
       IN  Append(prev, ListItem(Last(prev), sec, items[n]))

\* items.forEach(...)
ListItems(d, sec, items) == Last(ItemStates(d, sec, items, Len(items)))

\* ListSection asking for the space of one item more than the list has
ListSectionOverEstimate(d, sec, items) ==
  LET d1 == checkNewPage(d, 300 + (Len(items) + 1) * 80)
      d2 == setFont(setFontSize(d1, 16), "bold")
      d3 == advance(text(d2, sec, "header", 0, 1, 200, d2.y), 100)
      d4 == setFont(setFontSize(d3, 11), "normal")
      d5 == ListItems(d4, sec, items)
  IN  advance(d5, 80)

ListSection(d, sec, items) ==
  LET d1 == checkNewPage(d, 300 + Len(items) * 80)
      d2 == setFont(setFontSize(d1, 16), "bold")
      d3 == advance(text(d2, sec, "header", 0, 1, 200, d2.y), 100)
      d4 == setFont(setFontSize(d3, 11), "normal")
      d5 == ListItems(d4, sec, items)
  IN  advance(d5, 80)

Strengths(d, a) == ListSection(d, "strengths", a.strengths)

Weaknesses(d, a) == ListSection(d, "weaknesses", a.weaknesses)

SuggestedRoles(d, a) == ListSection(d, "roles", a.suggested_roles)

SkillGaps(d, a) == ListSection(d, "gaps", a.skill_gaps)

\* IsYes comparing the answer as it is, without toLowerCase
IsYesCaseSensitive(answer) == answer = YES

IsYes(answer) == toLowerCase(answer) = YES

AnswerSymbol(answer) == IF IsYes(answer) THEN "check" ELSE "cross"

AnswerColor(answer) == IF IsYes(answer) THEN "green" ELSE "red"

\* QAEntry without the reset of the text colour to black
QAEntryNoReset(d, qa, index) ==
  LET d1 == checkNewPage(d, 250)
      d2 == setFont(setFontSize(d1, 12), "bold")
      d3 == advance(addWrappedText(d2, "qa", "question", index + 1, qa.question, 200, 12), 30)
      d4 == setFont(setFontSize(d3, 11), "normal")
      d5 == setTextColor(d4, IF toLowerCase(qa.answer) = YES THEN "green" ELSE "red")
      d6 == text(d5, "qa", "answer",
                 [symbol |-> IF toLowerCase(qa.answer) = YES THEN "check" ELSE "cross",
                  label |-> toUpperCase(qa.answer)],
                 1, 200, d5.y)
      d7 == advance(d6, 80)
      d8 == addWrappedText(d7, "qa", "reason", qa.reason, qa.reason, 200, 11)
  IN  advance(d8, 100)

\* the body of questions_answers.forEach((qa, index) => ...), index 0-based
QAEntry(d, qa, index) ==
  LET d1 == checkNewPage(d, 250)
      d2 == setFont(setFontSize(d1, 12), "bold")
      d3 == advance(addWrappedText(d2, "qa", "question", index + 1, qa.question, 200, 12), 30)
      d4 == setFont(setFontSize(d3, 11), "normal")
      d5 == setTextColor(d4, AnswerColor(qa.answer))
      d6 == text(d5, "qa", "answer",
                 [symbol |-> AnswerSymbol(qa.answer), label |-> toUpperCase(qa.answer)],
                 1, 200, d5.y)
      d7 == advance(setTextColor(d6, "black"), 80)
      d8 == addWrappedText(d7, "qa", "reason", qa.reason, qa.reason, 200, 11)
  IN  advance(d8, 100)

RECURSIVE QAStates(_, _, _)
\* the document before questions_answers.forEach(...) and after each of its
\* first n rounds
QAStates(d, qas, n) ==
  IF n = 0 THEN <<d>>
  ELSE LET prev == QAStates(d, qas, n - 1)
       IN  Append(prev, QAEntry(Last(prev), qas[n], n - 1))

\* questions_answers.forEach(...)
QAEntries(d, qas) == Last(QAStates(d, qas, Len(qas)))

\* QuestionAnalysis without the test of questions_answers.length
QuestionAnalysisNoGuard(d, a) ==
  LET d1 == checkNewPage(d, 400)
      d2 == setFont(setFontSize(d1, 16), "bold")
      d3 == advance(text(d2, "qa", "header", 0, 1, 200, d2.y), 150)
  IN  QAEntries(d3, a.questions_answers)

QuestionAnalysis(d, a) ==
  IF Len(a.questions_answers) > 0
  THEN LET d1 == checkNewPage(d, 400)
           d2 == setFont(setFontSize(d1, 16), "bold")
           d3 == advance(text(d2, "qa", "header", 0, 1, 200, d2.y), 150)
       IN  QAEntries(d3, a.questions_answers)
  ELSE d

\* ContentStates with the weaknesses laid out before the strengths
ContentStatesSwapped(a) ==
  LET s0 == <<[NewDoc EXCEPT !.y = 200]>>
      s1 == Append(s0, Title(Last(s0)))
      s2 == Append(s1, MatchedBadge(Last(s1), a))
      s3 == Append(s2, ScoreBreakdown(Last(s2), a))
      s4 == Append(s3, Summary(Last(s3), a))
      s5 == Append(s4, Weaknesses(Last(s4), a))
      s6 == Append(s5, Strengths(Last(s5), a))
      s7 == Append(s6, SuggestedRoles(Last(s6), a))
      s8 == Append(s7, SkillGaps(Last(s7), a))
  IN  Append(s8, QuestionAnalysis(Last(s8), a))

\* the document and cursor at the start of exportToPDF and after each section
ContentStates(a) ==
  LET s0 == <<[NewDoc EXCEPT !.y = 200]>>
      s1 == Append(s0, Title(Last(s0)))
      s2 == Append(s1, MatchedBadge(Last(s1), a))
      s3 == Append(s2, ScoreBreakdown(Last(s2), a))
      s4 == Append(s3, Summary(Last(s3), a))
      s5 == Append(s4, Strengths(Last(s4), a))
      s6 == Append(s5, Weaknesses(Last(s5), a))
      s7 == Append(s6, SuggestedRoles(Last(s6), a))
      s8 == Append(s7, SkillGaps(Last(s7), a))
  IN  Append(s8, QuestionAnalysis(Last(s8), a))

\* everything exportToPDF does before the footer loop
ContentPass(a) == Last(ContentStates(a))

-----------------------------------------------------------------------------
(* exportToPDF: the footer pass and the save *)

\* FooterPage without doc.setPage(i): every footer lands on the current page
FooterPageNoSetPage(d, i, totalPages) ==
  LET d1 == setTextColor(setFontSize(d, 8), "gray")
      d2 == text(d1, "footer", "footer", <<i, totalPages>>, 1, 200, PageHeight - 100)
  IN  text(d2, "footer", "date", 0, 1, PageWidth - 400, PageHeight - 100)

FooterPage(d, i, totalPages) ==
  LET d1 == setTextColor(setFontSize(setPage(d, i), 8), "gray")
      d2 == text(d1, "footer", "footer", <<i, totalPages>>, 1, 200, PageHeight - 100)
  IN  text(d2, "footer", "date", 0, 1, PageWidth - 400, PageHeight - 100)

RECURSIVE FooterStates(_, _)
\* the document before the footer loop and after each of its first n rounds
FooterStates(d, n) ==
  IF n = 0 THEN <<d>>
  ELSE LET prev == FooterStates(d, n - 1)
       IN  Append(prev, FooterPage(Last(prev), n, getNumberOfPages(d)))

\* for (let i = 1; i <= totalPages; i++) { ... }
Footer(d) == Last(FooterStates(d, getNumberOfPages(d)))

\* Export with doc.save called before the footer loop
ExportSaveFirst(a) == Footer(save(ContentPass(a), "resume-analysis.pdf"))

\* the document exportToPDF builds and saves for a non-null analysis
Export(a) == save(Footer(ContentPass(a)), "resume-analysis.pdf")

\* ExportSaves without the early return: an empty report is rendered for null
ExportSavesNoGuard(an) ==
  LET r == IF an = Null
           THEN [matched |-> FALSE, overall_score |-> Null, totalExperienceInYears |-> 0,
                 impact |-> 0, skills_score |-> 0, summary |-> 1, strengths |-> <<>>,
                 weaknesses |-> <<>>, suggested_roles |-> <<>>, skill_gaps |-> <<>>,
                 questions_answers |-> <<>>]
           ELSE an[1]
  IN  <<[report |-> r, doc |-> Export(r)]>>

\* ExportSaves with yPosition kept across invocations: a later export starts
\* at the cursor the one before it ended with
ExportSavesSharedCursor(an) ==
  IF an = Null THEN <<>>
  ELSE LET a  == an[1]
           y0 == IF saves = <<>> THEN 200 ELSE saves[Len(saves)].doc.y
           s0 == <<[NewDoc EXCEPT !.y = y0]>>
           s1 == Append(s0, Title(Last(s0)))
           s2 == Append(s1, MatchedBadge(Last(s1), a))
           s3 == Append(s2, ScoreBreakdown(Last(s2), a))
           s4 == Append(s3, Summary(Last(s3), a))
           s5 == Append(s4, Strengths(Last(s4), a))
           s6 == Append(s5, Weaknesses(Last(s5), a))
           s7 == Append(s6, SuggestedRoles(Last(s6), a))
           s8 == Append(s7, SkillGaps(Last(s7), a))
           s9 == Append(s8, QuestionAnalysis(Last(s8), a))
       IN  <<[report |-> a, doc |-> save(Footer(Last(s9)), "resume-analysis.pdf")]>>

\* what one invocation of exportToPDF hands to the file-save mechanism: nothing
\* when analysis is null, else the document (kept with the report it renders)
ExportSaves(an) ==
  IF an = Null THEN <<>> ELSE <<[report |-> an[1], doc |-> Export(an[1])]>>

-----------------------------------------------------------------------------
(* Input sets: the reports (ApiResponse values) the exporter is run on *)

\* wrapped-line counts of a list item
LineChoices == {1, 50}

\* wrapped-line counts of the summary
SummaryChoices == {1, 16, 17, 50}

\* wrapped-line counts of a question and of a reason
QAChoices == {1, 50}

ScoreChoices == {Null, Some(0), Some(82)}

AnswersShort == {<<"Y", "e", "s">>, <<"N", "o">>}

Answers ==
  {<<"y", "e", "s">>, <<"Y", "E", "S">>, <<"Y", "e", "s">>, <<"y", "E", "s">>,
   <<"N", "o">>, <<"N", "O">>, <<"n", "o">>, <<"m", "a", "y", "b", "e">>,
   <<>>, <<"y", "e", "s", " ">>, <<"y", "e">>}

\* an ApiResponse, by the fields the page and the exporter read;
\* totalExperienceInYears is in tenths (6.9 years)
MkReport(m, o, s, l, qa) ==
  [matched |-> m, overall_score |-> o, totalExperienceInYears |-> 69,
   impact |-> 80, skills_score |-> 85, summary |-> s, strengths |-> l[1],
   weaknesses |-> l[2], suggested_roles |-> l[3], skill_gaps |-> l[4],
   questions_answers |-> qa]

\* the four list fields, with at most n items in all
ListTuples(n) ==
  UNION {[1..n1 -> LineChoices] \X [1..n2 -> LineChoices]
           \X [1..n3 -> LineChoices] \X [1..n4 -> LineChoices] :
         <<n1, n2, n3, n4>> \in {t \in (0..n) \X (0..n) \X (0..n) \X (0..n) :
                                  t[1] + t[2] + t[3] + t[4] <= n}}

\* the demonstration dataset of analyzeResume, by the wrapped length of its
\* texts: the summary takes two lines of the usable width, every list item,
\* question and reason one
MockData ==
  MkReport(TRUE, Some(82), 2, <<<<1, 1, 1>>, <<1, 1, 1>>, <<1, 1, 1, 1>>, <<1, 1, 1>>>>,
           <<[question |-> 1, answer |-> YES, reason |-> 1],
             [question |-> 1, answer |-> YES, reason |-> 1]>>)

\* years of experience, in tenths: 0, 0.4, 0.5, 6.9, 10, 10.4, 10.5, 15, 40
YearsChoices == {0, 4, 5, 69, 100, 104, 105, 150, 400}

\* the lists the scenario leaves open
OtherLists == {<<>>, <<1, 1, 1>>, <<50>>}

NoLists == <<<<>>, <<>>, <<>>, <<>>>>

\* the responses of the analysis service in the component's behaviours
ServiceReports ==
  {MkReport(FALSE, Null, 1, NoLists, <<>>),
   MkReport(TRUE, Some(90), 17, <<<<1>>, <<50, 1>>, <<>>, <<3>>>>,
            <<[question |-> 50, answer |-> <<"N", "o">>, reason |-> 1]>>)}

-----------------------------------------------------------------------------
(* Files offered by a drop or by the file picker *)

EndsWith(s, suffix) ==
  /\ Len(s) >= Len(suffix)
  /\ \A i \in 1..Len(suffix) : s[Len(s) - Len(suffix) + i] = suffix[i]

DotDocx == <<".", "d", "o", "c", "x">>

PdfFile == [type |-> "application/pdf", name |-> <<"r", ".", "p", "d", "f">>]

DocxFile == [type |-> "", name |-> <<"r", ".", "d", "o", "c", "x">>]

TxtFile == [type |-> "text/plain", name |-> <<"r", ".", "t", "x", "t">>]

Files == {PdfFile, DocxFile, TxtFile}

ErrorMessage == "Failed to analyze resume. Please try again."

-----------------------------------------------------------------------------
(* What the page shows of an analysis *)

\* <ScoreCircle score={analysis.overall_score || 0} />
ScoreCircleScore(a) == OrZero(a.overall_score)

\* the icon of the Answer cell of the on-screen table
TableIcon(answer) == IF toLowerCase(answer) = YES THEN "Check" ELSE "X"

\* Math.round of the quotient num / den of two naturals (half rounds up)
MathRound(num, den) == (2 * num + den) \div (2 * den)

\* the value of the Experience Level item, shown as value/10:
\* Math.round((analysis.totalExperienceInYears / 10) * 10), the years in tenths
ExperienceLevel(a) == MathRound(a.totalExperienceInYears * 10, 100)

\* the max of the Experience Level item
ExperienceLevelMax == 10

\* the analysis cards are rendered when analysis is set and no request runs
ShowsAnalysis == analysis # Null /\ ~isAnalyzing

-----------------------------------------------------------------------------
(* The component *)

Init ==
  /\ file = Null
  /\ isAnalyzing = FALSE
  /\ analysis = Null
  /\ isDragOver = FALSE
  /\ error = Null
  /\ calls = <<>>
  /\ saves = <<>>
  /\ nExport = 0
  /\ nClick = 0

handleDragOver ==
  /\ isDragOver' = TRUE
  /\ UNCHANGED <<file, isAnalyzing, analysis, error, calls, saves, nExport, nClick>>

handleDragLeave ==
  /\ isDragOver' = FALSE
  /\ UNCHANGED <<file, isAnalyzing, analysis, error, calls, saves, nExport, nClick>>

\* handleDrop without the test of the type and the name
handleDropAcceptsAny(droppedFile) ==
  /\ isDragOver' = FALSE
  /\ file' = IF droppedFile # Null THEN droppedFile ELSE file
  /\ UNCHANGED <<isAnalyzing, analysis, error, calls, saves, nExport, nClick>>

\* droppedFile is e.dataTransfer.files[0]: a file or undefined (Null)
handleDrop(droppedFile) ==
  /\ isDragOver' = FALSE
  /\ file' = IF /\ droppedFile # Null
                /\ \/ droppedFile[1].type = "application/pdf"
                   \/ EndsWith(droppedFile[1].name, DotDocx)
             THEN droppedFile
             ELSE file
  /\ UNCHANGED <<isAnalyzing, analysis, error, calls, saves, nExport, nClick>>

\* selectedFile is e.target.files?.[0]: a file or undefined (Null)
handleFileSelect(selectedFile) ==
  /\ file' = IF selectedFile # Null THEN selectedFile ELSE file
  /\ UNCHANGED <<isAnalyzing, analysis, isDragOver, error, calls, saves, nExport, nClick>>

\* analyzeResume that also clears the analysis shown
analyzeResumeClearsAnalysis ==
  /\ file # Null
  /\ ~isAnalyzing
  /\ Len(calls) < MaxCalls
  /\ isAnalyzing' = TRUE
  /\ error' = Null
  /\ analysis' = Null
  /\ calls' = Append(calls, [stage |-> "reading", file |-> file[1]])
  /\ UNCHANGED <<file, isDragOver, saves, nExport, nClick>>

\* analyzeResume without setError(null)
analyzeResumeKeepsError ==
  /\ file # Null
  /\ ~isAnalyzing
  /\ Len(calls) < MaxCalls
  /\ isAnalyzing' = TRUE
  /\ calls' = Append(calls, [stage |-> "reading", file |-> file[1]])
  /\ UNCHANGED <<file, analysis, isDragOver, error, saves, nExport, nClick>>

\* analyzeResume with the Analyze control left enabled while a request runs
analyzeResumeNotDisabled ==
  /\ file # Null
  /\ Len(calls) < MaxCalls
  /\ isAnalyzing' = TRUE
  /\ error' = Null
  /\ calls' = Append(calls, [stage |-> "reading", file |-> file[1]])
  /\ UNCHANGED <<file, analysis, isDragOver, saves, nExport, nClick>>

\* a click on the Analyze control, rendered when file is set and disabled
\* while isAnalyzing; the call runs to its first await (the file read)
analyzeResume ==
  /\ file # Null
  /\ ~isAnalyzing
  /\ Len(calls) < MaxCalls
  /\ isAnalyzing' = TRUE
  /\ error' = Null
  /\ calls' = Append(calls, [stage |-> "reading", file |-> file[1]])
  /\ UNCHANGED <<file, analysis, isDragOver, saves, nExport, nClick>>

RemoveAt(s, i) == [j \in 1..(Len(s) - 1) |-> IF j < i THEN s[j] ELSE s[j + 1]]

\* AnalyzeFailed without the fallback to the demonstration dataset
AnalyzeFailedNoFallback(i) ==
  /\ error' = Some(ErrorMessage)
  /\ isAnalyzing' = FALSE
  /\ calls' = RemoveAt(calls, i)
  /\ UNCHANGED <<file, analysis, isDragOver, saves, nExport, nClick>>

\* AnalyzeFailed that falls back to the demonstration dataset only when no
\* analysis is shown
AnalyzeFailedKeepsShown(i) ==
  /\ error' = Some(ErrorMessage)
  /\ analysis' = IF analysis = Null THEN Some(MockData) ELSE analysis
  /\ isAnalyzing' = FALSE
  /\ calls' = RemoveAt(calls, i)
  /\ UNCHANGED <<file, isDragOver, saves, nExport, nClick>>

\* the catch and finally blocks of analyzeResume
AnalyzeFailed(i) ==
  /\ error' = Some(ErrorMessage)
  /\ analysis' = Some(MockData)
  /\ isAnalyzing' = FALSE
  /\ calls' = RemoveAt(calls, i)
  /\ UNCHANGED <<file, isDragOver, saves, nExport, nClick>>

\* reader.onload: the call goes on to fetch
ReadResolved(i) ==
  /\ i \in 1..Len(calls)
  /\ calls[i].stage = "reading"
  /\ calls' = [calls EXCEPT ![i].stage = "fetching"]
  /\ UNCHANGED <<file, isAnalyzing, analysis, isDragOver, error, saves, nExport, nClick>>

\* reader.onerror
ReadRejected(i) ==
  /\ i \in 1..Len(calls)
  /\ calls[i].stage = "reading"
  /\ AnalyzeFailed(i)

\* fetch resolves with a response; !response.ok throws
FetchResolved(i, ok) ==
  /\ i \in 1..Len(calls)
  /\ calls[i].stage = "fetching"
  /\ IF ok
     THEN /\ calls' = [calls EXCEPT ![i].stage = "parsing"]
          /\ UNCHANGED <<file, isAnalyzing, analysis, isDragOver, error, saves, nExport, nClick>>
     ELSE AnalyzeFailed(i)

FetchRejected(i) ==
  /\ i \in 1..Len(calls)
  /\ calls[i].stage = "fetching"
  /\ AnalyzeFailed(i)

\* JsonResolved without the finally block
JsonResolvedNoFinally(i, data) ==
  /\ i \in 1..Len(calls)
  /\ calls[i].stage = "parsing"
  /\ analysis' = Some(data)
  /\ calls' = RemoveAt(calls, i)
  /\ UNCHANGED <<file, isAnalyzing, isDragOver, error, saves, nExport, nClick>>

\* response.json() resolves: setAnalysis(data), then the finally block
JsonResolved(i, data) ==
  /\ i \in 1..Len(calls)
  /\ calls[i].stage = "parsing"
  /\ analysis' = Some(data)
  /\ isAnalyzing' = FALSE
  /\ calls' = RemoveAt(calls, i)
  /\ UNCHANGED <<file, isDragOver, error, saves, nExport, nClick>>

JsonRejected(i) ==
  /\ i \in 1..Len(calls)
  /\ calls[i].stage = "parsing"
  /\ AnalyzeFailed(i)

\* one invocation of exportToPDF (the function is defined in the component; the
\* Export control it renders carries no onClick)
exportToPDF ==
  /\ nExport < MaxExports
  /\ nExport' = nExport + 1
  /\ saves' = saves \o ExportSaves(analysis)
  /\ UNCHANGED <<file, isAnalyzing, analysis, isDragOver, error, calls, nClick>>

\* a click on the Export control of the results header, rendered when analysis
\* is set: the Button has no onClick, so the click runs no handler
clickExport ==
  /\ analysis # Null
  /\ nClick < MaxClicks
  /\ nClick' = nClick + 1
  /\ UNCHANGED <<file, isAnalyzing, analysis, isDragOver, error, calls, saves, nExport>>

Next ==
  \/ handleDragOver
  \/ handleDragLeave
  \/ \E f \in {Null} \cup {Some(x) : x \in Files} : handleDrop(f)
  \/ \E f \in {Null} \cup {Some(x) : x \in Files} : handleFileSelect(f)
  \/ analyzeResume
  \/ \E i \in 1..MaxCalls : ReadResolved(i)
  \/ \E i \in 1..MaxCalls : ReadRejected(i)
  \/ \E i \in 1..MaxCalls, ok \in BOOLEAN : FetchResolved(i, ok)
  \/ \E i \in 1..MaxCalls : FetchRejected(i)
  \/ \E i \in 1..MaxCalls, data \in ServiceReports : JsonResolved(i, data)
  \/ \E i \in 1..MaxCalls : JsonRejected(i)
  \/ exportToPDF
  \/ clickExport

Spec == Init /\ [][Next]_vars

\* the pending promise of request i (the file read, fetch, or response.json())
\* resolves or rejects and the call runs on to its next await or to its end
Settles(i) ==
  \/ ReadResolved(i)
  \/ ReadRejected(i)
  \/ \E ok \in BOOLEAN : FetchResolved(i, ok)
  \/ FetchRejected(i)
  \/ \E data \in ServiceReports : JsonResolved(i, data)
  \/ JsonRejected(i)

\* the steps that set the state of the component: its handlers and the
\* settlements of its requests (exportToPDF calls no setter, and the Export
\* control runs no handler)
RequestNext ==
  \/ handleDragOver
  \/ handleDragLeave
  \/ \E f \in {Null} \cup {Some(x) : x \in Files} : handleDrop(f)
  \/ \E f \in {Null} \cup {Some(x) : x \in Files} : handleFileSelect(f)
  \/ analyzeResume
  \/ \E i \in 1..MaxCalls : ReadResolved(i)
  \/ \E i \in 1..MaxCalls : ReadRejected(i)
  \/ \E i \in 1..MaxCalls, ok \in BOOLEAN : FetchResolved(i, ok)
  \/ \E i \in 1..MaxCalls : FetchRejected(i)
  \/ \E i \in 1..MaxCalls, data \in ServiceReports : JsonResolved(i, data)
  \/ \E i \in 1..MaxCalls : JsonRejected(i)

\* the component under the assumption that no promise stays pending for ever
LiveSpec == Init /\ [][RequestNext]_vars /\ \A i \in 1..MaxCalls : WF_vars(Settles(i))

-----------------------------------------------------------------------------
(* The exporter on every report of the input set: the component as it is   *)
(* once an analysis (or none) is in place, with exportToPDF as its only    *)
(* operation                                                               *)

\* reports with at most MaxItems list items and question/answer entries in all
LayoutInput ==
  \E nq \in 0..MaxItems, s \in SummaryChoices :
    \E l \in ListTuples(MaxItems - nq),
       qa \in [1..nq -> [question : QAChoices, answer : AnswersShort,
                         reason : QAChoices]] :
      analysis = Some(MkReport(TRUE, Some(82), s, l, qa))

\* reports laid out like the demonstration dataset, with any answers
AnswerInput ==
  \E k \in 0..MaxQA : \E ans \in [1..k -> Answers] :
    analysis = Some([MockData EXCEPT !.questions_answers =
      [i \in 1..k |-> [question |-> 1, answer |-> ans[i], reason |-> 1]]])

\* every matched and overall_score, on the demonstration layout and on empty lists
ScalarInput ==
  \E m \in BOOLEAN, o \in ScoreChoices :
    \/ analysis = Some([MockData EXCEPT !.matched = m, !.overall_score = o])
    \/ analysis = Some(MkReport(m, o, 1, NoLists, <<>>))

\* the scenario report: the scores and the two "yes" entries of the
\* demonstration dataset, a summary of 160 characters (one to four lines, by
\* the width of its glyphs), three short strengths, any other lists
ScenarioInput ==
  \E s \in {1, 2, 4} :
    \E w \in OtherLists, r \in OtherLists, g \in OtherLists :
      analysis = Some([MockData EXCEPT !.summary = s, !.weaknesses = w,
                                       !.suggested_roles = r, !.skill_gaps = g])

\* the demonstration dataset with other years of experience (in tenths)
ExperienceInput ==
  \E y \in YearsChoices :
    analysis = Some([MockData EXCEPT !.totalExperienceInYears = y])

ExportInit ==
  /\ \/ analysis = Null
     \/ ExperienceInput
     \/ LayoutInput
     \/ AnswerInput
     \/ ScalarInput
     \/ ScenarioInput
  /\ file = IF analysis = Null THEN Null ELSE Some(PdfFile)
  /\ isAnalyzing = FALSE
  /\ isDragOver = FALSE
  /\ error = Null
  /\ calls = <<>>
  /\ saves = <<>>
  /\ nExport = 0
  /\ nClick = 0

ExportNext == exportToPDF

ExportSpec == ExportInit /\ [][ExportNext]_vars

-----------------------------------------------------------------------------
(* Vocabulary of the properties *)

\* the blocks of a document that come from the content pass, in emission order
ContentBlocks(d) == SelectSeq(d.blocks, LAMBDA b : b.sec # "footer")

BlocksOf(d, sec, kind) == SelectSeq(d.blocks, LAMBDA b : b.sec = sec /\ b.kind = kind)

ListFields(r) ==
  [strengths |-> r.strengths, weaknesses |-> r.weaknesses,
   roles |-> r.suggested_roles, gaps |-> r.skill_gaps]

ListSecs == {"strengths", "weaknesses", "roles", "gaps"}

AllListsEmpty(r) ==
  /\ \A sec \in ListSecs : ListFields(r)[sec] = <<>>
  /\ r.questions_answers = <<>>

\* an exportToPDF invocation
ExportStep == nExport' = nExport + 1

\* the last export so far rendered a report and this is its document
LastDoc == saves[Len(saves)].doc

LastReport == saves[Len(saves)].report

-----------------------------------------------------------------------------
(* C1 - footer correctness *)

FooterCorrect(d) ==
  LET N == d.pages
      footers == SelectSeq(d.blocks, LAMBDA b : b.kind = "footer")
      content == ContentBlocks(d)
  IN  /\ Len(footers) = N
      /\ \A i \in 1..N :
           \E k \in 1..Len(footers) :
             /\ footers[k].page = i
             /\ footers[k].val = <<i, N>>
             /\ \A j \in 1..Len(footers) : footers[j].page = i => j = k
      /\ {content[k].page : k \in 1..Len(content)} = 1..N

\* C1: in every saved document with N pages, each page i of 1..N carries
\* exactly one footer, reading "Page i of N"; N is the number of pages the
\* content pass produced (every page of 1..N holds content, none was added by
\* the footer pass).
C1_FooterCorrectness == \A k \in 1..Len(saves) : FooterCorrect(saves[k].doc)

C1_Witness == saves # <<>> /\ LastDoc.pages >= 3

-----------------------------------------------------------------------------
(* C2 - completeness *)

ItemsEmitted(d, sec) ==
  LET bs == BlocksOf(d, sec, "item") IN [i \in 1..Len(bs) |-> bs[i].val.text]

QAEmitted(d, qas) ==
  LET bs == SelectSeq(d.blocks, LAMBDA b : b.sec = "qa" /\ b.kind # "header")
  IN  /\ Len(bs) = 3 * Len(qas)
      /\ \A i \in 1..Len(qas) :
           /\ bs[3 * i - 2].kind = "question"
           /\ bs[3 * i - 2].val = i
           /\ bs[3 * i - 2].lines = qas[i].question
           /\ bs[3 * i - 1].kind = "answer"
           /\ bs[3 * i - 1].val.label = toUpperCase(qas[i].answer)
           /\ bs[3 * i].kind = "reason"
           /\ bs[3 * i].val = qas[i].reason

Complete(r, d) ==
  /\ \A sec \in ListSecs : ItemsEmitted(d, sec) = ListFields(r)[sec]
  /\ QAEmitted(d, r.questions_answers)

\* C2: in every saved document, the items emitted for each of strengths,
\* weaknesses, suggested_roles and skill_gaps are exactly the items of the
\* report's list, once each and in input order, and the question/answer
\* entries are emitted once each in input order, whatever page breaks occur.
C2_Completeness == \A k \in 1..Len(saves) : Complete(saves[k].report, saves[k].doc)

\* a list of two different items laid out across a page break
C2_Witness ==
  /\ saves # <<>>
  /\ \E sec \in ListSecs :
       LET bs == BlocksOf(LastDoc, sec, "item")
       IN  Len(bs) = 2 /\ bs[1].page < bs[2].page /\ bs[1].val # bs[2].val

-----------------------------------------------------------------------------
(* C3 - a page break never splits a list item *)

\* the vertical position of the last wrapped line of a block, by the line
\* height addWrappedText accounts for
LastLineY(b) == b.y + (b.lines - 1) * b.size * 4

\* C3 (as claimed): every list item, question and reason of every saved
\* document lies entirely within the usable area of its page: all of its
\* wrapped lines are above the bottom margin pageHeight - 20.
C3_NeverSplit ==
  \A k \in 1..Len(saves) :
    \A i \in 1..Len(saves[k].doc.blocks) :
      LET b == saves[k].doc.blocks[i]
      IN  b.kind \in {"item", "question", "reason"} => LastLineY(b) <= PageHeight - 200

-----------------------------------------------------------------------------
(* C4 - export with no analysis *)

\* C4: an exportToPDF invocation with analysis null saves nothing and leaves
\* every state variable of the component unchanged.
C4_NoAnalysisNoOp ==
  [][ExportStep /\ analysis = Null =>
       UNCHANGED <<file, isAnalyzing, analysis, isDragOver, error, calls, saves>>]_vars

\* exportToPDF was invoked with a file selected and no analysis
C4_Witness == nExport >= 1 /\ analysis = Null /\ file # Null /\ saves = <<>>

-----------------------------------------------------------------------------
(* C5 - one artifact per export, saved last *)

SectionsEmitted(d) ==
  /\ \A sec \in {"title", "status", "score", "summary"} \cup ListSecs :
       \E i \in 1..Len(d.blocks) : d.blocks[i].sec = sec
  /\ \A i \in 1..d.pages :
       \E j \in 1..Len(d.blocks) : d.blocks[j].kind = "footer" /\ d.blocks[j].page = i

SavedWhole(d) ==
  /\ Len(d.saved) = 1
  /\ d.saved[1].name = "resume-analysis.pdf"
  /\ d.saved[1].nblocks = Len(d.blocks)
  /\ d.saved[1].pages = d.pages
  /\ SectionsEmitted(d)

\* C5: an exportToPDF invocation with an analysis present hands exactly one
\* document to save, under the name resume-analysis.pdf, and the save is the
\* last thing done to it: every content section and the footer of every page
\* are in the document when it is saved.
C5_OneSaveAtEnd ==
  [][ExportStep /\ analysis # Null =>
       /\ Len(saves') = Len(saves) + 1
       /\ SubSeq(saves', 1, Len(saves)) = saves
       /\ SavedWhole(saves'[Len(saves')].doc)]_vars

C5_Witness == saves # <<>> /\ LastDoc.pages = 2 /\ LastReport.questions_answers # <<>>

-----------------------------------------------------------------------------
(* C6 - colour scoping *)

ColorScoped(d) ==
  LET bs == ContentBlocks(d)
  IN  \A i \in 1..Len(bs) :
        IF bs[i].kind \in {"status", "answer"}
        THEN bs[i].color \in {"green", "red"}
        ELSE bs[i].color = "black"

\* C6: in every saved document the only content blocks in a colour other than
\* black are the matched/not-matched status line and the status lines of the
\* question/answer entries; every other content block (each reason, each
\* block of a later section) is black.
C6_ColorScoping == \A k \in 1..Len(saves) : ColorScoped(saves[k].doc)

\* a red status line, its reason, and a further entry after it
C6_Witness ==
  /\ saves # <<>>
  /\ LET bs == ContentBlocks(LastDoc)
     IN  \E i \in 1..Len(bs) :
           /\ bs[i].kind = "answer" /\ bs[i].color = "red"
           /\ i + 2 <= Len(bs)
           /\ bs[i + 1].kind = "reason" /\ bs[i + 1].color = "black"
           /\ bs[i + 2].kind = "question"

-----------------------------------------------------------------------------
(* C7 - all list fields empty *)

OnePageWithHead(d) ==
  /\ d.pages = 1
  /\ \A sec \in {"title", "status", "score"} :
       \E i \in 1..Len(d.blocks) : d.blocks[i].sec = sec /\ d.blocks[i].page = 1
  /\ Len(SelectSeq(d.blocks, LAMBDA b : b.sec = "score")) = 5

\* C7 (as claimed): every saved document of a report whose five list fields
\* are empty has exactly one page, holding the title, the status line and the
\* score section, whatever the summary.
C7_EmptyListsOnePage ==
  \A k \in 1..Len(saves) :
    AllListsEmpty(saves[k].report) => OnePageWithHead(saves[k].doc)

\* C7 (amended): every saved document of a report whose five list fields are
\* empty and whose summary wraps to at most 16 lines has exactly one page,
\* holding the title, the status line and the score section.
C7_EmptyListsShortSummaryOnePage ==
  \A k \in 1..Len(saves) :
    AllListsEmpty(saves[k].report) /\ saves[k].report.summary <= 16
      => OnePageWithHead(saves[k].doc)

C7_Witness ==
  /\ saves # <<>>
  /\ AllListsEmpty(LastReport)
  /\ LastReport.summary = 16
  /\ LastDoc.pages = 1

-----------------------------------------------------------------------------
(* C8 - fixed section order *)

SectionOrder ==
  <<"title", "status", "score", "summary", "strengths", "weaknesses", "roles",
    "gaps", "qa">>

Rank(sec) == CHOOSE i \in 1..Len(SectionOrder) : SectionOrder[i] = sec

InOrder(r, d) ==
  LET bs == ContentBlocks(d)
      score == SelectSeq(bs, LAMBDA b : b.sec = "score")
  IN  /\ \A i \in 1..(Len(bs) - 1) :
           Rank(bs[i].sec) <= Rank(bs[i + 1].sec) /\ bs[i].page <= bs[i + 1].page
      /\ {bs[i].sec : i \in 1..Len(bs)} =
           {SectionOrder[i] : i \in 1..8}
             \cup (IF r.questions_answers = <<>> THEN {} ELSE {"qa"})
      /\ [i \in 1..Len(score) |-> score[i].kind] =
           <<"header", "overall", "years", "impact", "skills">>

\* C8: in every saved document the content blocks, in emission order, run
\* through title, status line, score breakdown (header, overall score, years
\* of experience, impact, skills), summary, strengths, weaknesses, suggested
\* roles, skill gaps and question/answer entries; emission order is document
\* order (the page index never decreases) and no block of a later section
\* precedes a block of an earlier one.
C8_SectionOrder == \A k \in 1..Len(saves) : InOrder(saves[k].report, saves[k].doc)

\* two list sections with items and the question/answer section, over a break
C8_Witness ==
  /\ saves # <<>>
  /\ LastDoc.pages >= 2
  /\ LastReport.strengths # <<>>
  /\ LastReport.weaknesses # <<>>
  /\ LastReport.questions_answers # <<>>

-----------------------------------------------------------------------------
(* C9 - answer classification *)

\* the answer is y, e, s in any mix of cases
Affirmative(answer) ==
  /\ Len(answer) = 3
  /\ answer[1] \in {"y", "Y"}
  /\ answer[2] \in {"e", "E"}
  /\ answer[3] \in {"s", "S"}

AnswersClassified(r, d) ==
  LET bs == BlocksOf(d, "qa", "answer")
  IN  /\ Len(bs) = Len(r.questions_answers)
      /\ \A i \in 1..Len(bs) :
           IF Affirmative(r.questions_answers[i].answer)
           THEN bs[i].val.symbol = "check" /\ bs[i].color = "green"
           ELSE bs[i].val.symbol = "cross" /\ bs[i].color = "red"

TableClassified(r) ==
  \A i \in 1..Len(r.questions_answers) :
    TableIcon(r.questions_answers[i].answer) =
      IF Affirmative(r.questions_answers[i].answer) THEN "Check" ELSE "X"

\* C9: in every saved document the status line of a question/answer entry has
\* the affirmative glyph in green exactly when the answer is "yes" in any mix
\* of cases, and the negative glyph in red for every other answer; the
\* on-screen table picks its icon by the same rule.
C9_AnswerClassification ==
  /\ \A k \in 1..Len(saves) : AnswersClassified(saves[k].report, saves[k].doc)
  /\ ShowsAnalysis => TableClassified(analysis[1])

\* an export of entries answered "No" and "YES"
C9_Witness ==
  /\ saves # <<>>
  /\ ShowsAnalysis
  /\ LET qas == LastReport.questions_answers
     IN  /\ Len(qas) = 2
         /\ qas[1].answer = <<"N", "o">>
         /\ qas[2].answer = <<"Y", "E", "S">>

-----------------------------------------------------------------------------
(* C10 - missing overall score *)

Shown(score) == IF score = Null THEN 0 ELSE score[1]

\* C10: every saved document prints, as overall score, 0 when the report's
\* overall_score is null and the score itself otherwise, and is exported
\* whole (every section, every footer, one save); the score circle shows the
\* same value.
C10_MissingOverallScore ==
  /\ \A k \in 1..Len(saves) :
       LET bs == BlocksOf(saves[k].doc, "score", "overall")
       IN  /\ Len(bs) = 1
           /\ bs[1].val = Shown(saves[k].report.overall_score)
           /\ SavedWhole(saves[k].doc)
  /\ ShowsAnalysis => ScoreCircleScore(analysis[1]) = Shown(analysis[1].overall_score)

\* an export of a report with no overall score and with every section filled
C10_Witness ==
  /\ saves # <<>>
  /\ ShowsAnalysis
  /\ LastReport.overall_score = Null
  /\ LastReport.questions_answers # <<>>
  /\ LastReport.skill_gaps # <<>>

-----------------------------------------------------------------------------
(* C11 - idempotence *)

\* the pages and blocks of a document, without the date of the footer
Structure(d) ==
  [pages |-> d.pages, blocks |-> SelectSeq(d.blocks, LAMBDA b : b.kind # "date")]

\* the document was built from new jsPDF() with the cursor at 20: its first
\* block is the title at the top margin of page 1, and it was saved once
FreshStart(d) ==
  /\ d.blocks[1].kind = "title"
  /\ d.blocks[1].page = 1
  /\ d.blocks[1].y = 200
  /\ Len(d.saved) = 1

-----------------------------------------------------------------------------
(* C12 - upstream failure fallback *)

\* a step in which an analysis request fails: the file read is rejected, fetch
\* is rejected, the response is not OK, or its body does not parse
RequestFails ==
  \E i \in 1..Len(calls) :
    \/ ReadRejected(i)
    \/ FetchRejected(i)
    \/ FetchResolved(i, FALSE)
    \/ JsonRejected(i)

\* C12: whenever an analysis request fails, by a file read error, a rejected
\* fetch, a non-OK status or an unparsable body, the state after the step has
\* error set to the failure message, analysis set to the demonstration
\* dataset, and isAnalyzing false.
C12_FailureFallback ==
  [][RequestFails =>
       /\ error' = Some(ErrorMessage)
       /\ analysis' = Some(MockData)
       /\ isAnalyzing' = FALSE]_vars

\* a request failed after a report of the service had been shown and exported
C12_Witness ==
  /\ error = Some(ErrorMessage)
  /\ analysis = Some(MockData)
  /\ ~isAnalyzing
  /\ saves # <<>>
  /\ LastReport \in ServiceReports

-----------------------------------------------------------------------------
(* C13 - export is triggered by a user action *)

\* a click on the Export control
ClickStep == nClick' = nClick + 1

\* C13 (as claimed): every click on the Export control, in a state where an
\* analysis is available, saves exactly one document, laid out whole (every
\* section, the footer of every page) within that step.
C13_ClickExports ==
  [][ClickStep /\ analysis # Null =>
       /\ Len(saves') = Len(saves) + 1
       /\ SavedWhole(saves'[Len(saves')].doc)]_vars

\* the Export control was clicked with an analysis shown, and nothing is saved
C13_Witness == nClick >= 1 /\ ShowsAnalysis /\ saves = <<>>

-----------------------------------------------------------------------------
(* C14 - the scenario report *)

IsScenario(r) ==
  /\ r.matched
  /\ r.overall_score = Some(82)
  /\ r.impact = 80
  /\ r.skills_score = 85
  /\ r.totalExperienceInYears = 69
  /\ r.summary \in 1..4
  /\ r.strengths = <<1, 1, 1>>
  /\ Len(r.questions_answers) = 2
  /\ \A i \in 1..2 : r.questions_answers[i].answer = YES

\* page 1 holds the title, the green MATCHED line, the score lines and the
\* summary
ScenarioHead(r, d) ==
  LET p1 == SelectSeq(d.blocks, LAMBDA b : b.page = 1)
      Has(kind, sec, val) ==
        \E i \in 1..Len(p1) : p1[i].kind = kind /\ p1[i].sec = sec /\ p1[i].val = val
  IN  /\ Has("title", "title", 0)
      /\ \E i \in 1..Len(p1) :
           p1[i].kind = "status" /\ p1[i].val = "MATCHED" /\ p1[i].color = "green"
      /\ Has("overall", "score", 82)
      /\ Has("years", "score", 69)
      /\ Has("impact", "score", 80)
      /\ Has("skills", "score", 85)
      /\ \E i \in 1..Len(p1) :
           p1[i].kind = "body" /\ p1[i].sec = "summary" /\ p1[i].lines = r.summary

\* page 1 holds the three strengths, each with the given glyph and colour
ScenarioStrengths(d, glyph, color) ==
  LET bs == BlocksOf(d, "strengths", "item")
  IN  /\ Len(bs) = 3
      /\ \A i \in 1..3 :
           bs[i].page = 1 /\ bs[i].val.glyph = glyph /\ bs[i].color = color

\* both question/answer entries have a green check mark
ScenarioAnswers(d) ==
  LET bs == BlocksOf(d, "qa", "answer")
  IN  /\ Len(bs) = 2
      /\ \A i \in 1..2 : bs[i].val.symbol = "check" /\ bs[i].color = "green"

\* C14 (as claimed): every saved document of the scenario report has on page
\* 1 the title, a green MATCHED status line, the scores, the wrapped summary
\* and the three strengths, each strength with a green check glyph, and both
\* question/answer entries have green affirmative glyphs.
C14_Scenario ==
  \A k \in 1..Len(saves) :
    IsScenario(saves[k].report) =>
      /\ ScenarioHead(saves[k].report, saves[k].doc)
      /\ ScenarioStrengths(saves[k].doc, "check", "green")
      /\ ScenarioAnswers(saves[k].doc)

\* C14 (amended): the same, with each strength as a bullet item in the
\* default black.
C14_ScenarioBlackBullets ==
  \A k \in 1..Len(saves) :
    IsScenario(saves[k].report) =>
      /\ ScenarioHead(saves[k].report, saves[k].doc)
      /\ ScenarioStrengths(saves[k].doc, "bullet", "black")
      /\ ScenarioAnswers(saves[k].doc)

\* the scenario report exported, with a summary of two lines, onto two pages
C14_Witness ==
  /\ saves # <<>>
  /\ IsScenario(LastReport)
  /\ LastReport.summary = 2
  /\ LastDoc.pages = 2

-----------------------------------------------------------------------------
(* C15 - serialization of analysis requests *)

\* C15: in every reachable state at most one analysis request is in flight,
\* and isAnalyzing (the disabled state of the Analyze control) is true exactly
\* while one is.
C15_OneRequestInFlight ==
  /\ Len(calls) <= 1
  /\ isAnalyzing <=> calls # <<>>

\* a second request in flight after the first has settled, the selected file
\* changed while it runs
C15_Witness ==
  /\ Len(calls) = 1
  /\ isAnalyzing
  /\ analysis # Null
  /\ file # Null
  /\ file[1] # calls[1].file

-----------------------------------------------------------------------------
(* C16 - page-break policy coverage *)

\* block i of the document was emitted directly after a checkNewPage call:
\* a call was made when i - 1 blocks had been emitted
CheckedBlock(d, i) == \E c \in 1..Len(d.checks) : d.checks[c].at = i - 1

\* C16 (as claimed): in every saved document each block of the content pass
\* (title, status line, section headers, score lines, summary body, list
\* items, question lines, answer status lines, reasoning paragraphs) is
\* emitted directly after a page-break check.
C16_EveryBlockChecked ==
  \A k \in 1..Len(saves) :
    \A i \in 1..Len(saves[k].doc.blocks) :
      saves[k].doc.blocks[i].sec # "footer" => CheckedBlock(saves[k].doc, i)

\* the blocks that do come directly after a check are the section headers of
\* the score, summary, list and question/answer sections, the list items and
\* the question lines; an answer status line or a reasoning paragraph below
\* the bottom margin shows what the missing check lets through
C16_Witness ==
  /\ saves # <<>>
  /\ \E i \in 1..Len(LastDoc.blocks) :
       /\ LastDoc.blocks[i].kind \in {"answer", "reason"}
       /\ ~CheckedBlock(LastDoc, i)
       /\ LastDoc.blocks[i].y > PageHeight

-----------------------------------------------------------------------------
(* C17 - the effect of checkNewPage and the space it is asked for *)

\* what a checkNewPage call did, against what it is to do
CheckEffect(c) ==
  IF c.y + c.r > PageHeight - 200
  THEN c.pages2 = c.pages + 1 /\ c.cur2 = c.pages + 1 /\ c.y2 = 200
  ELSE c.pages2 = c.pages /\ c.cur2 = c.cur /\ c.y2 = c.y

\* the space to be asked for before block b of a document of report r
RequiredSpace(r, b) ==
  CASE b.sec = "score" /\ b.kind = "header" -> 600
    [] b.sec = "summary" /\ b.kind = "header" -> 400
    [] b.sec \in ListSecs /\ b.kind = "header" -> 300 + 80 * Len(ListFields(r)[b.sec])
    [] b.sec \in ListSecs /\ b.kind = "item" -> 100
    [] b.sec = "qa" /\ b.kind = "header" -> 400
    [] b.sec = "qa" /\ b.kind = "question" -> 250
    [] OTHER -> -1

NumChecks(r) ==
  6 + Len(r.strengths) + Len(r.weaknesses) + Len(r.suggested_roles) + Len(r.skill_gaps)
    + (IF r.questions_answers = <<>> THEN 0 ELSE 1 + Len(r.questions_answers))

ChecksAsStated(r, d) ==
  /\ Len(d.checks) = NumChecks(r)
  /\ \A c \in 1..Len(d.checks) :
       /\ CheckEffect(d.checks[c])
       /\ d.checks[c].r = RequiredSpace(r, d.blocks[d.checks[c].at + 1])
       /\ c > 1 => d.checks[c - 1].at < d.checks[c].at

\* C17: in every saved document each checkNewPage(r) call, made with the
\* cursor at y, appended exactly one page, made it the current page and set
\* the cursor to 20 if y + r > pageHeight - 20, and changed neither the page
\* count nor the current page nor the cursor otherwise; r is 60 before the
\* score section, 40 before the summary, 30 + 8n before a list section of n
\* items, 10 before each list item, 40 before the question/answer header and
\* 25 before each question/answer entry, and there are no other calls.
C17_CheckNewPage ==
  \A k \in 1..Len(saves) : ChecksAsStated(saves[k].report, saves[k].doc)

\* a document in which the check before a list section of two items added a
\* page and the check before its first item did not
C17_Witness ==
  /\ saves # <<>>
  /\ \E c \in 1..(Len(LastDoc.checks) - 1) :
       /\ LastDoc.checks[c].r = 460
       /\ LastDoc.checks[c].pages2 = LastDoc.checks[c].pages + 1
       /\ LastDoc.checks[c + 1].r = 100
       /\ LastDoc.checks[c + 1].pages2 = LastDoc.checks[c + 1].pages

-----------------------------------------------------------------------------
(* C18 - cursor advance for wrapped text *)

Wrapped == {"body", "item", "question", "reason"}

\* the cursor as the step after block i of the content pass finds it: the
\* checkNewPage call that follows the block, else the next block, else the
\* end of the content pass
CursorAfter(d, i) ==
  IF \E c \in 1..Len(d.checks) : d.checks[c].at = i
  THEN d.checks[CHOOSE c \in 1..Len(d.checks) : d.checks[c].at = i].y
  ELSE IF i < Len(d.blocks) /\ d.blocks[i + 1].sec # "footer"
       THEN d.blocks[i + 1].y
       ELSE d.y

\* what the caller adds after wrapped block i: 10 after the summary, 2 after
\* a list item (and the 8 that end the section after its last item), 3 after
\* a question, 10 after a reasoning paragraph
GapAfter(d, i) ==
  CASE d.blocks[i].kind = "body" -> 100
    [] d.blocks[i].kind = "item" ->
         IF /\ i < Len(d.blocks)
            /\ d.blocks[i + 1].kind = "item"
            /\ d.blocks[i + 1].sec = d.blocks[i].sec
         THEN 20
         ELSE 20 + 80
    [] d.blocks[i].kind = "question" -> 30
    [] d.blocks[i].kind = "reason" -> 100

WrappedAdvance(d) ==
  \A i \in 1..Len(d.blocks) :
    LET b == d.blocks[i]
    IN  b.kind \in Wrapped =>
          /\ b.size = IF b.kind = "question" THEN 12 ELSE 11
          /\ CursorAfter(d, i) = b.y + b.lines * b.size * 4 + GapAfter(d, i)
          /\ \A c \in 1..Len(d.checks) :
               d.checks[c].at = i - 1 =>
                 b.y = d.checks[c].y2 /\ b.page = d.checks[c].cur2

\* C18: in every saved document a wrapped text of k lines at font size s
\* (11 for the summary, list items and reasons, 12 for questions) is one
\* block on the current page at the cursor y, and the next step finds the
\* cursor at y + k * s * 0.4 plus the gap of the caller: 10 after the summary,
\* 2 after a list item, 3 after a question, 10 after a reason.
C18_WrappedAdvance == \A k \in 1..Len(saves) : WrappedAdvance(saves[k].doc)

\* a list item and a question of 50 lines each in one document
C18_Witness ==
  /\ saves # <<>>
  /\ \E i, j \in 1..Len(LastDoc.blocks) :
       /\ LastDoc.blocks[i].kind = "item" /\ LastDoc.blocks[i].lines = 50
       /\ LastDoc.blocks[j].kind = "question" /\ LastDoc.blocks[j].lines = 50

-----------------------------------------------------------------------------
(* C19 - shape of the question/answer section *)

QAShape(r, d) ==
  LET qa == SelectSeq(d.blocks, LAMBDA b : b.sec = "qa")
      n  == Len(r.questions_answers)
  IN  IF n = 0
      THEN qa = <<>>
      ELSE /\ Len(qa) = 1 + 3 * n
           /\ qa[1].kind = "header" /\ qa[1].style = "bold"
           /\ \A i \in 1..n :
                /\ qa[3 * i - 1].kind = "question"
                /\ qa[3 * i - 1].style = "bold"
                /\ qa[3 * i].kind = "answer"
                /\ qa[3 * i].color \in {"green", "red"}
                /\ qa[3 * i].lines = 1
                /\ qa[3 * i + 1].kind = "reason"
                /\ qa[3 * i + 1].style = "normal"
                /\ qa[3 * i + 1].color = "black"

ListHeaders(d) ==
  \A sec \in ListSecs :
    LET hs == BlocksOf(d, sec, "header")
    IN  Len(hs) = 1 /\ hs[1].style = "bold"

\* C19: in every saved document of a report with question/answer entries the
\* section header is emitted once, before the entries, and each entry is, in
\* this order, one bold question block, one coloured status line and one
\* normal-weight reasoning block; for a report with no entries neither the
\* header nor any entry block is emitted; each of the four list sections has
\* its header once, whether or not its list is empty.
C19_QAShape ==
  \A k \in 1..Len(saves) :
    QAShape(saves[k].report, saves[k].doc) /\ ListHeaders(saves[k].doc)

\* an export of a report with no entries and every list empty (the four list
\* headers are there, the question/answer header is not), then an export of
\* a report with two entries
C19_Witness ==
  /\ Len(saves) >= 2
  /\ AllListsEmpty(saves[1].report)
  /\ \A sec \in ListSecs : BlocksOf(saves[1].doc, sec, "header") # <<>>
  /\ BlocksOf(saves[1].doc, "qa", "header") = <<>>
  /\ Len(LastReport.questions_answers) = 2
  /\ Len(BlocksOf(LastDoc, "qa", "question")) = 2

-----------------------------------------------------------------------------
(* C20 - successful analysis *)

\* a step in which an analysis request succeeds: the response is OK and its
\* body parses to data
RequestSucceeds(data) == \E i \in 1..Len(calls) : JsonResolved(i, data)

\* C20: whenever an analysis request succeeds with the parsed body data, the
\* state after the step has analysis set to data, error null and isAnalyzing
\* false.
C20_SuccessfulAnalysis ==
  [][\A data \in ServiceReports :
       RequestSucceeds(data) =>
         /\ analysis' = Some(data)
         /\ analysis' # Some(MockData)
         /\ error' = Null
         /\ isAnalyzing' = FALSE]_vars

\* a request succeeded after an earlier one had failed and the demonstration
\* dataset had been exported
C20_Witness ==
  /\ analysis # Null
  /\ analysis[1] \in ServiceReports
  /\ error = Null
  /\ ~isAnalyzing
  /\ calls = <<>>
  /\ saves # <<>>
  /\ LastReport = MockData

-----------------------------------------------------------------------------
(* C21 - no block starts below the bottom margin *)

\* C21 (as claimed): in every saved document every block of the content pass
\* is placed at a vertical position y with 20 <= y <= pageHeight - 20.
C21_BlocksWithinMargins ==
  \A k \in 1..Len(saves) :
    \A i \in 1..Len(saves[k].doc.blocks) :
      LET b == saves[k].doc.blocks[i]
      IN  b.sec # "footer" => 200 <= b.y /\ b.y <= PageHeight - 200

\* a reasoning paragraph that starts in or below the footer band
C21_Witness ==
  /\ saves # <<>>
  /\ \E i \in 1..Len(LastDoc.blocks) :
       /\ LastDoc.blocks[i].kind = "reason"
       /\ LastDoc.blocks[i].y >= PageHeight - 100

-----------------------------------------------------------------------------
(* C22 - every analysis request ends *)

\* C22: if the file read and the network call always resolve or reject in
\* the end, every state with isAnalyzing true is followed by a state with
\* isAnalyzing false and analysis set, whether the request succeeds or fails.
C22_RequestEnds == isAnalyzing ~> (~isAnalyzing /\ analysis # Null)

\* a first request has reached its last await, with no analysis shown yet
C22_Witness ==
  /\ isAnalyzing
  /\ analysis = Null
  /\ Len(calls) = 1
  /\ calls[1].stage = "parsing"

-----------------------------------------------------------------------------
(* C23 - an error is shown only with the demonstration dataset *)

\* C23: in every reachable state, if error is set then analysis is the
\* demonstration dataset (never a result of the service, never null).
C23_ErrorImpliesMock == error # Null => analysis = Some(MockData)

\* a request failed after an earlier one had succeeded, and no request runs
C23_Witness ==
  /\ error # Null
  /\ ~isAnalyzing
  /\ saves # <<>>
  /\ saves[1].report \in ServiceReports
  /\ nClick = 0

-----------------------------------------------------------------------------
(* C24 - a stale analysis is kept *)

\* a file is dropped or picked, or a request is started
SelectsOrStarts ==
  \/ \E f \in {Null} \cup {Some(x) : x \in Files} : handleDrop(f) \/ handleFileSelect(f)
  \/ analyzeResume

\* C24: dropping or picking a file and starting an analysis request leave
\* analysis unchanged, and an exportToPDF invocation made while a request
\* runs saves the document of the analysis still in place.
C24_StaleAnalysisKept ==
  [][/\ SelectsOrStarts => analysis' = analysis
     /\ ExportStep /\ isAnalyzing /\ analysis # Null =>
          /\ Len(saves') = Len(saves) + 1
          /\ saves'[Len(saves')].report = analysis[1]
          /\ analysis' = analysis]_vars

\* the analysis of an earlier file was exported, and is still in place while
\* the request for another file has gone on to its fetch
C24_Witness ==
  /\ isAnalyzing
  /\ analysis # Null
  /\ saves # <<>>
  /\ LastReport = analysis[1]
  /\ Len(calls) = 1
  /\ calls[1].stage = "fetching"
  /\ calls[1].file = DocxFile

-----------------------------------------------------------------------------
(* C25 - accepted file types *)

Accepted(f) == f.type = "application/pdf" \/ EndsWith(f.name, DotDocx)

\* C25 (as claimed): in every reachable state the selected file is null, or
\* has the type application/pdf, or has a name that ends in .docx.
C25_AcceptedFileTypes == file # Null => Accepted(file[1])

\* a text file is selected and a request for it is under way
C25_Witness ==
  /\ file = Some(TxtFile)
  /\ Len(calls) = 1
  /\ calls[1].file = TxtFile

-----------------------------------------------------------------------------
(* C26 - a rejected drop *)

\* what a drop that is not accepted carries: nothing, or a file that is
\* neither application/pdf nor named *.docx
RejectedDrops == {Null} \cup {Some(x) : x \in {f \in Files : ~Accepted(f)}}

\* C26: a drop of nothing, or of a file that is neither application/pdf nor
\* named *.docx, leaves file, analysis, error, isAnalyzing (and the requests
\* in flight) unchanged and sets isDragOver false.
C26_RejectedDrop ==
  [][\A f \in RejectedDrops :
       handleDrop(f) =>
         /\ UNCHANGED <<file, analysis, error, isAnalyzing, calls>>
         /\ isDragOver' = FALSE]_vars

\* a drag is over the upload area while a docx file is selected, an analysis
\* is shown and a request runs: a state in which the drop of a text file can
\* take place and has all of these to leave alone
C26_Witness ==
  /\ isDragOver
  /\ file = Some(DocxFile)
  /\ analysis # Null
  /\ isAnalyzing
  /\ ENABLED handleDrop(Some(TxtFile))

-----------------------------------------------------------------------------
(* C27 - no blank pages *)

\* the checkNewPage calls of a document that added a page
Breaks(d) == {c \in 1..Len(d.checks) : d.checks[c].pages2 > d.checks[c].pages}

NoBlankPages(d) ==
  /\ d.pages = 1 + Cardinality(Breaks(d))
  /\ \A c \in Breaks(d) :
       /\ d.checks[c].pages2 = d.checks[c].pages + 1
       /\ d.checks[c].at < Len(d.blocks)
       /\ d.blocks[d.checks[c].at + 1].sec # "footer"
       /\ d.blocks[d.checks[c].at + 1].page = d.checks[c].pages2
  /\ d.blocks[1].sec # "footer" /\ d.blocks[1].page = 1

\* C27: in every saved document each page holds a block of the content pass:
\* page 1 holds the first block, and every other page was added by a
\* checkNewPage call that is followed directly by a content block, emitted on
\* the page it added; no page is added in any other way.
C27_NoBlankPages == \A k \in 1..Len(saves) : NoBlankPages(saves[k].doc)

\* a document of three pages with a question/answer entry
C27_Witness ==
  /\ saves # <<>>
  /\ Cardinality(Breaks(LastDoc)) = 2
  /\ LastReport.questions_answers # <<>>

-----------------------------------------------------------------------------
(* C28 - bound of the Experience Level item *)

\* C28 (as claimed): whenever an analysis is shown, the value of the
\* Experience Level item lies between 0 and its maximum 10.
C28_ExperienceLevelBound ==
  ShowsAnalysis =>
    /\ 0 <= ExperienceLevel(analysis[1])
    /\ ExperienceLevel(analysis[1]) <= ExperienceLevelMax

\* an analysis with 15 years of experience is shown: the item reads 15/10
C28_Witness ==
  /\ ShowsAnalysis
  /\ analysis[1].totalExperienceInYears = 150
  /\ ExperienceLevel(analysis[1]) = 15
  /\ nExport >= 1

-----------------------------------------------------------------------------
(* C29 - cursor monotonicity *)

\* the checkNewPage call made when i blocks had been emitted, if there is one
CheckAt(d, i) == {c \in 1..Len(d.checks) : d.checks[c].at = i}

\* each checkNewPage call finds and leaves the last page selected and the
\* cursor at 20 or below it on the page, never takes a page away, and moves
\* the cursor only when it adds a page, to 20
ChecksMonotone(d) ==
  \A c \in 1..Len(d.checks) :
    LET k == d.checks[c]
    IN  /\ k.pages2 >= k.pages
        /\ k.cur = k.pages /\ k.cur2 = k.pages2
        /\ k.y >= 200 /\ k.y2 >= 200
        /\ k.y2 # k.y => k.pages2 > k.pages /\ k.y2 = 200
        /\ c > 1 => k.pages = d.checks[c - 1].pages2

\* from one block of the content pass to the next step (a checkNewPage call,
\* the next block, the end of the pass) the cursor does not decrease and the
\* page stays the same
BlocksMonotone(d) ==
  \A i \in 1..Len(d.blocks) :
    LET b == d.blocks[i]
    IN  b.sec # "footer" =>
          /\ b.y >= 200
          /\ CursorAfter(d, i) >= b.y
          /\ \A c \in CheckAt(d, i) : d.checks[c].cur = b.page
          /\ \A c \in CheckAt(d, i - 1) : b.page = d.checks[c].cur2 /\ b.y = d.checks[c].y2
          /\ i > 1 /\ CheckAt(d, i - 1) = {} =>
               b.page = d.blocks[i - 1].page /\ b.y >= d.blocks[i - 1].y

\* C29: in the content pass of every saved document the page count never
\* decreases, the current page is always the last page, yPosition is always
\* at least 20, and yPosition decreases only at a page break, where it
\* becomes exactly 20.
C29_CursorMonotone ==
  \A k \in 1..Len(saves) :
    ChecksMonotone(saves[k].doc) /\ BlocksMonotone(saves[k].doc)

\* a page break that took the cursor from below the page edge back to 20
C29_Witness ==
  /\ saves # <<>>
  /\ \E c \in Breaks(LastDoc) :
       LastDoc.checks[c].y > PageHeight /\ LastDoc.checks[c].y2 = 200

=============================================================================
